---- MODULE Spec2Model ----
(***************************************************************************)
(* Model of server.js: the heading tree builder (buildTreeFromHtml), the   *)
(* export serializer (buildHtml), the sanitizers (cleanHtml,               *)
(* sanitizeTable) and the /api/upload-base64 handler.                      *)
(*                                                                         *)
(* A JavaScript string is a sequence of one-character strings, so that the *)
(* regular expressions of cleanHtml, the template literal of buildHtml and *)
(* the HTML parser all work on the same text.                              *)
(***************************************************************************)
EXTENDS Integers, Sequences, FiniteSets, TLC

VARIABLES
  html,          \* buildTreeFromHtml: the argument
  bodyChildren,  \* buildTreeFromHtml: Array.from(doc.body.children)
  pos,           \* buildTreeFromHtml: index of the next element of the for loop
  nodes,         \* the Section objects created so far, by order of creation
  tree,          \* buildTreeFromHtml: tree (references into nodes)
  stack,         \* buildTreeFromHtml: stack (references into nodes)
  branch,        \* the branch of the loop body taken by the last iteration
  pc,            \* position of the import/export being followed
  finalHtml,     \* /api/export: the markup handed to htmlToDocx
  rebuilt,       \* the Sections and tree built again from finalHtml
  cleanArg,      \* cleanHtml: the argument
  cleanResult,   \* cleanHtml: the returned string
  cleanPc,       \* cleanHtml: called or returned
  parsed,        \* sanitizeTable: the elements of the parsed document, in tree order
  elements,      \* sanitizeTable: the same elements, as the loop changes them
  selected,      \* sanitizeTable: the NodeList of querySelectorAll (indexes into elements)
  elIndex,       \* sanitizeTable: position of forEach in selected
  tablePc,       \* sanitizeTable: in forEach or returned
  clock,         \* /api/upload-base64: Date.now()
  files,         \* /api/upload-base64: the upload directory, by the time stamp in the file name
  requests       \* /api/upload-base64: the requests being served

builderVars == <<html, bodyChildren, pos, nodes, tree, stack, branch, pc>>

exportVars == <<finalHtml, rebuilt>>

cleanVars == <<cleanArg, cleanResult, cleanPc>>

tableVars == <<parsed, elements, selected, elIndex, tablePc>>

uploadVars == <<clock, files, requests>>

vars == <<builderVars, exportVars, cleanVars, tableVars, uploadVars>>

(***************************************************************************)
(* Bounds of the model.                                                    *)
(***************************************************************************)
MaxElems == 4

MaxRoundTripElems == 3

MaxRoundTripLevel == 2

MaxSections == 3

MaxPieces == 4

MaxDomElements == 2

MaxAttrs == 2

NumRequests == 2

MaxClock == 2

(***************************************************************************)
(* Strings.                                                                *)
(***************************************************************************)
LowerLetters == <<"a","b","c","d","e","f","g","h","i","j","k","l","m","n","o","p","q","r","s","t","u","v","w","x","y","z">>

UpperLetters == <<"A","B","C","D","E","F","G","H","I","J","K","L","M","N","O","P","Q","R","S","T","U","V","W","X","Y","Z">>

DigitChars == <<"0","1","2","3","4","5","6","7","8","9">>

Range(s) == {s[k] : k \in DOMAIN s}

LowerSet == Range(LowerLetters)

UpperSet == Range(UpperLetters)

DigitSet == Range(DigitChars)

IsLetter(c) == c \in LowerSet \cup UpperSet

IsDigit(c) == c \in DigitSet

IsSpace(c) == c \in {" ", "\n", "\t"}

UpperChar(c) == IF c \in LowerSet THEN UpperLetters[CHOOSE k \in DOMAIN LowerLetters : LowerLetters[k] = c] ELSE c

LowerChar(c) == IF c \in UpperSet THEN LowerLetters[CHOOSE k \in DOMAIN UpperLetters : UpperLetters[k] = c] ELSE c

ToUpperCase(s) == [k \in DOMAIN s |-> UpperChar(s[k])]

ToLowerCase(s) == [k \in DOMAIN s |-> LowerChar(s[k])]

RECURSIVE Flatten(_)
Flatten(ss) == IF ss = <<>> THEN <<>> ELSE Head(ss) \o Flatten(Tail(ss))

\* s.indexOf(c, from), 1-based; 0 when absent
IndexOf(s, c, from) == IF \E j \in from..Len(s) : s[j] = c THEN CHOOSE j \in from..Len(s) : s[j] = c /\ \A k \in from..(j-1) : s[k] # c ELSE 0

\* whether the text t occurs in s at index i
StartsAt(s, i, t) == i >= 1 /\ i + Len(t) - 1 <= Len(s) /\ \A k \in 1..Len(t) : s[i + k - 1] = t[k]

\* String.prototype.trim
RECURSIVE TrimLeft(_)
TrimLeft(s) == IF s # <<>> /\ IsSpace(Head(s)) THEN TrimLeft(Tail(s)) ELSE s

RECURSIVE TrimRight(_)
TrimRight(s) == IF s # <<>> /\ IsSpace(s[Len(s)]) THEN TrimRight(SubSeq(s, 1, Len(s) - 1)) ELSE s

Trim(s) == TrimRight(TrimLeft(s))

(***************************************************************************)
(* The HTML parser behind new JSDOM(html): tokenizer and tree construction *)
(* for the elements this program distinguishes (h1..h6, p, any other tag), *)
(* with double-quoted attributes and the entities &lt; &gt; &amp; &quot;.  *)
(* A token is [k, name, attrs, c]; a DOM node is [type, tag, attrs, kids,  *)
(* data].                                                                  *)
(***************************************************************************)
StartTag(name, attrs) == [k |-> "start", name |-> name, attrs |-> attrs, c |-> ""]

EndTag(name) == [k |-> "end", name |-> name, attrs |-> <<>>, c |-> ""]

CharTok(c) == [k |-> "char", name |-> <<>>, attrs |-> <<>>, c |-> c]

TextNode(data) == [type |-> "text", tag |-> <<>>, attrs |-> <<>>, kids |-> <<>>, data |-> data]

Element(tag, attrs, kids) == [type |-> "el", tag |-> tag, attrs |-> attrs, kids |-> kids, data |-> <<>>]

EntityLt == <<"&","l","t",";">>

EntityGt == <<"&","g","t",";">>

EntityAmp == <<"&","a","m","p",";">>

EntityQuot == <<"&","q","u","o","t",";">>

\* character references in text and in attribute values
RECURSIVE DecodeEntities(_)
DecodeEntities(s) ==
  IF s = <<>> THEN <<>>
  ELSE IF StartsAt(s, 1, EntityLt) THEN <<"<">> \o DecodeEntities(SubSeq(s, 5, Len(s)))
  ELSE IF StartsAt(s, 1, EntityGt) THEN <<">">> \o DecodeEntities(SubSeq(s, 5, Len(s)))
  ELSE IF StartsAt(s, 1, EntityAmp) THEN <<"&">> \o DecodeEntities(SubSeq(s, 6, Len(s)))
  ELSE IF StartsAt(s, 1, EntityQuot) THEN <<"\"">> \o DecodeEntities(SubSeq(s, 7, Len(s)))
  ELSE <<Head(s)>> \o DecodeEntities(Tail(s))

\* the end of the run of characters from i that are none of stop
RECURSIVE RunEnd(_, _, _)
RunEnd(s, i, stop) == IF i <= Len(s) /\ s[i] \notin stop THEN RunEnd(s, i + 1, stop) ELSE i

\* the attributes written in the rest of a start tag; a repeated name is dropped
RECURSIVE ParseAttrs(_, _, _)
ParseAttrs(s, i, acc) ==
  IF i > Len(s) THEN acc
  ELSE IF IsSpace(s[i]) \/ s[i] = "/" THEN ParseAttrs(s, i + 1, acc)
  ELSE LET e == RunEnd(s, i + 1, {" ", "\n", "\t", "/", "="})
           name == ToLowerCase(SubSeq(s, i, e - 1))
           quoted == StartsAt(s, e, <<"=", "\"">>)
           close == IF quoted THEN IndexOf(s, "\"", e + 2) ELSE 0
           value == IF close > 0 THEN DecodeEntities(SubSeq(s, e + 2, close - 1)) ELSE <<>>
           next == IF close > 0 THEN close + 1 ELSE IF quoted THEN Len(s) + 1 ELSE IF e <= Len(s) /\ s[e] = "=" THEN e + 1 ELSE e
           seen == \E k \in DOMAIN acc : acc[k].name = name
       IN ParseAttrs(s, next, IF seen THEN acc ELSE Append(acc, [name |-> name, value |-> value]))

RECURSIVE Tokenize(_, _)
Tokenize(s, i) ==
  IF i > Len(s) THEN <<>>
  ELSE IF s[i] = "<" /\ i + 1 <= Len(s) /\ IsLetter(s[i + 1]) THEN
    LET gt == IndexOf(s, ">", i + 1)
        e == RunEnd(s, i + 1, {" ", "\n", "\t", "/", ">"})
    IN IF gt = 0 THEN <<>>
       ELSE <<StartTag(ToLowerCase(SubSeq(s, i + 1, e - 1)), ParseAttrs(SubSeq(s, e, gt - 1), 1, <<>>))>> \o Tokenize(s, gt + 1)
  ELSE IF s[i] = "<" /\ i + 2 <= Len(s) /\ s[i + 1] = "/" /\ IsLetter(s[i + 2]) THEN
    LET gt == IndexOf(s, ">", i + 2)
        e == RunEnd(s, i + 2, {" ", "\n", "\t", "/", ">"})
    IN IF gt = 0 THEN <<>>
       ELSE <<EndTag(ToLowerCase(SubSeq(s, i + 2, e - 1)))>> \o Tokenize(s, gt + 1)
  ELSE IF StartsAt(s, i, EntityLt) THEN <<CharTok("<")>> \o Tokenize(s, i + 4)
  ELSE IF StartsAt(s, i, EntityGt) THEN <<CharTok(">")>> \o Tokenize(s, i + 4)
  ELSE IF StartsAt(s, i, EntityAmp) THEN <<CharTok("&")>> \o Tokenize(s, i + 5)
  ELSE IF StartsAt(s, i, EntityQuot) THEN <<CharTok("\"")>> \o Tokenize(s, i + 6)
  ELSE <<CharTok(s[i])>> \o Tokenize(s, i + 1)

HeadingTags == {<<"h", DigitChars[n + 1]>> : n \in 1..6}

ParagraphTag == <<"p">>

\* the stack of open elements; open[1] is the body
OpenBody == <<[tag |-> <<"b","o","d","y">>, attrs |-> <<>>, kids |-> <<>>]>>

AppendKid(open, node) == [open EXCEPT ![Len(open)].kids = Append(@, node)]

InsertChar(open, c) ==
  LET kids == open[Len(open)].kids
  IN IF kids # <<>> /\ kids[Len(kids)].type = "text"
     THEN [open EXCEPT ![Len(open)].kids[Len(kids)].data = Append(@, c)]
     ELSE AppendKid(open, TextNode(<<c>>))

PopElement(open) == AppendKid(SubSeq(open, 1, Len(open) - 1), Element(open[Len(open)].tag, open[Len(open)].attrs, open[Len(open)].kids))

\* pop the open elements down to and including the one at index idx
RECURSIVE PopThrough(_, _)
PopThrough(open, idx) == IF Len(open) >= idx /\ Len(open) > 1 THEN PopThrough(PopElement(open), idx) ELSE open

\* the topmost open element (above the body) with one of the tags; 0 when none
TopmostIndex(open, tags) == IF \E k \in 2..Len(open) : open[k].tag \in tags THEN CHOOSE k \in 2..Len(open) : open[k].tag \in tags /\ \A j \in (k+1)..Len(open) : open[j].tag \notin tags ELSE 0

PushElement(open, tok) == Append(open, [tag |-> tok.name, attrs |-> tok.attrs, kids |-> <<>>])

ClosePElement(open) == IF TopmostIndex(open, {ParagraphTag}) # 0 THEN PopThrough(open, TopmostIndex(open, {ParagraphTag})) ELSE open

\* the "in body" insertion mode, for one token
InBody(open, tok) ==
  IF tok.k = "char" THEN InsertChar(open, tok.c)
  ELSE IF tok.k = "start" /\ tok.name \in HeadingTags THEN
    LET o1 == ClosePElement(open)
        o2 == IF o1[Len(o1)].tag \in HeadingTags THEN PopElement(o1) ELSE o1
    IN PushElement(o2, tok)
  ELSE IF tok.k = "start" /\ tok.name = ParagraphTag THEN PushElement(ClosePElement(open), tok)
  ELSE IF tok.k = "start" THEN PushElement(open, tok)
  ELSE IF tok.name \in HeadingTags THEN
    IF TopmostIndex(open, HeadingTags) = 0 THEN open ELSE PopThrough(open, TopmostIndex(open, HeadingTags))
  ELSE IF tok.name = ParagraphTag THEN
    IF TopmostIndex(open, {ParagraphTag}) = 0 THEN PopElement(PushElement(open, StartTag(ParagraphTag, <<>>))) ELSE ClosePElement(open)
  ELSE LET idx == TopmostIndex(open, {tok.name})
           special == TopmostIndex(open, HeadingTags \cup {ParagraphTag})
       IN IF idx = 0 \/ special > idx THEN open ELSE PopThrough(open, idx)

RECURSIVE TreeConstruction(_, _)
TreeConstruction(open, toks) == IF toks = <<>> THEN PopThrough(open, 2)[1].kids ELSE TreeConstruction(InBody(open, Head(toks)), Tail(toks))

\* new JSDOM(html).window.document.body.childNodes
ParseBody(s) == TreeConstruction(OpenBody, Tokenize(s, 1))

IsElement(n) == n.type = "el"

\* Array.from(doc.body.children): the element children only
BodyChildren(s) == SelectSeq(ParseBody(s), IsElement)

(***************************************************************************)
(* DOM accessors: textContent, outerHTML, innerHTML.                       *)
(***************************************************************************)
RECURSIVE TextContent(_)
TextContent(n) == IF n.type = "text" THEN n.data ELSE Flatten([k \in DOMAIN n.kids |-> TextContent(n.kids[k])])

EscapeTextChar(c) == IF c = "&" THEN EntityAmp ELSE IF c = "<" THEN EntityLt ELSE IF c = ">" THEN EntityGt ELSE <<c>>

EscapeAttrChar(c) == IF c = "&" THEN EntityAmp ELSE IF c = "\"" THEN EntityQuot ELSE <<c>>

EscapeText(s) == Flatten([k \in DOMAIN s |-> EscapeTextChar(s[k])])

SerializeAttr(a) == <<" ">> \o a.name \o <<"=", "\"">> \o Flatten([k \in DOMAIN a.value |-> EscapeAttrChar(a.value[k])]) \o <<"\"">>

RECURSIVE OuterHTML(_)
OuterHTML(n) ==
  IF n.type = "text" THEN EscapeText(n.data)
  ELSE <<"<">> \o n.tag \o Flatten([k \in DOMAIN n.attrs |-> SerializeAttr(n.attrs[k])]) \o <<">">>
       \o Flatten([k \in DOMAIN n.kids |-> OuterHTML(n.kids[k])])
       \o <<"<", "/">> \o n.tag \o <<">">>

InnerHTML(kids) == Flatten([k \in DOMAIN kids |-> OuterHTML(kids[k])])

(***************************************************************************)
(* buildTreeFromHtml.  A Section object is [title, level, contentHtml,     *)
(* children]; tree, stack and children hold references to Section objects, *)
(* here their index in nodes (the order of creation).  The builder's state *)
(* is [nodes, tree, stack, branch].                                        *)
(***************************************************************************)
IntroTitle == <<"I","n","t","r","o">>

EmptyBuild == [nodes |-> <<>>, tree |-> <<>>, stack |-> <<>>, branch |-> "none"]

\* while (stack.length > 0 && stack[stack.length - 1].level >= level) stack.pop()
RECURSIVE PopToLevelStrict(_, _, _)
PopToLevelStrict(ns, stk, level) == IF Len(stk) > 0 /\ ns[stk[Len(stk)]].level > level THEN PopToLevelStrict(ns, SubSeq(stk, 1, Len(stk) - 1), level) ELSE stk

\* the loop as an if: at most one Section is closed
PopToLevelOnce(ns, stk, level) == IF Len(stk) > 0 /\ ns[stk[Len(stk)]].level >= level THEN SubSeq(stk, 1, Len(stk) - 1) ELSE stk

RECURSIVE PopToLevel(_, _, _)
PopToLevel(ns, stk, level) == IF Len(stk) > 0 /\ ns[stk[Len(stk)]].level >= level THEN PopToLevel(ns, SubSeq(stk, 1, Len(stk) - 1), level) ELSE stk

CreateNode(title, level) == [title |-> title, level |-> level, contentHtml |-> <<>>, children |-> <<>>]

\* node.tagName of an HTML element
TagName(n) == ToUpperCase(n.tag)

\* tag.match(/^H([1-6])$/) and parseInt of its group; 0 when there is no match
HeadingMatch(tag) == IF Len(tag) = 2 /\ tag[1] = "H" /\ tag[2] \in {DigitChars[n + 1] : n \in 1..6} THEN CHOOSE n \in 1..6 : DigitChars[n + 1] = tag[2] ELSE 0

\* the heading branch of the loop body
ProcessHeading(st, node, level) ==
  LET title == Trim(TextContent(node))
      stk == PopToLevel(st.nodes, st.stack, level)
      id == Len(st.nodes) + 1
      created == Append(st.nodes, CreateNode(title, level))
  IN IF Len(stk) = 0
     THEN [nodes |-> created, tree |-> Append(st.tree, id), stack |-> Append(stk, id), branch |-> "heading"]
     ELSE [nodes |-> [created EXCEPT ![stk[Len(stk)]].children = Append(@, id)], tree |-> st.tree, stack |-> Append(stk, id), branch |-> "heading"]

\* the fragment goes to the oldest open Section instead of the newest
AppendContentBottom(st, htmlFragment) ==
  IF Len(st.stack) > 0 THEN
    [st EXCEPT !.nodes[st.stack[1]].contentHtml = @ \o htmlFragment, !.branch = "top"]
  ELSE IF Len(st.tree) = 0 THEN
    LET id == Len(st.nodes) + 1
        intro == [CreateNode(IntroTitle, 1) EXCEPT !.contentHtml = @ \o htmlFragment]
    IN [nodes |-> Append(st.nodes, intro), tree |-> Append(st.tree, id), stack |-> Append(st.stack, id), branch |-> "intro"]
  ELSE
    [st EXCEPT !.nodes[st.tree[1]].contentHtml = @ \o htmlFragment, !.branch = "first"]

\* the synthesized root is created without the fragment that caused it
AppendContentEmptyIntro(st, htmlFragment) ==
  IF Len(st.stack) > 0 THEN
    [st EXCEPT !.nodes[st.stack[Len(st.stack)]].contentHtml = @ \o htmlFragment, !.branch = "top"]
  ELSE IF Len(st.tree) = 0 THEN
    LET id == Len(st.nodes) + 1
    IN [nodes |-> Append(st.nodes, CreateNode(IntroTitle, 1)), tree |-> Append(st.tree, id), stack |-> Append(st.stack, id), branch |-> "intro"]
  ELSE
    [st EXCEPT !.nodes[st.tree[1]].contentHtml = @ \o htmlFragment, !.branch = "first"]

\* the synthesized root is not pushed onto the stack
AppendContentNoPush(st, htmlFragment) ==
  IF Len(st.stack) > 0 THEN
    [st EXCEPT !.nodes[st.stack[Len(st.stack)]].contentHtml = @ \o htmlFragment, !.branch = "top"]
  ELSE IF Len(st.tree) = 0 THEN
    LET id == Len(st.nodes) + 1
        intro == [CreateNode(IntroTitle, 1) EXCEPT !.contentHtml = @ \o htmlFragment]
    IN [nodes |-> Append(st.nodes, intro), tree |-> Append(st.tree, id), stack |-> st.stack, branch |-> "intro"]
  ELSE
    [st EXCEPT !.nodes[st.tree[1]].contentHtml = @ \o htmlFragment, !.branch = "first"]

\* the non-heading branch of the loop body
AppendContent(st, htmlFragment) ==
  IF Len(st.stack) > 0 THEN
    [st EXCEPT !.nodes[st.stack[Len(st.stack)]].contentHtml = @ \o htmlFragment, !.branch = "top"]
  ELSE IF Len(st.tree) = 0 THEN
    LET id == Len(st.nodes) + 1
        intro == [CreateNode(IntroTitle, 1) EXCEPT !.contentHtml = @ \o htmlFragment]
    IN [nodes |-> Append(st.nodes, intro), tree |-> Append(st.tree, id), stack |-> Append(st.stack, id), branch |-> "intro"]
  ELSE
    [st EXCEPT !.nodes[st.tree[1]].contentHtml = @ \o htmlFragment, !.branch = "first"]

\* the body of for (const node of bodyChildren)
ProcessNode(st, node) ==
  LET level == HeadingMatch(TagName(node))
  IN IF level # 0 THEN ProcessHeading(st, node, level) ELSE AppendContent(st, OuterHTML(node))

RECURSIVE BuildLoop(_, _)
BuildLoop(st, elems) == IF elems = <<>> THEN st ELSE BuildLoop(ProcessNode(st, Head(elems)), Tail(elems))

\* buildTreeFromHtml(html): the Section objects and the returned tree
BuildTreeFromHtml(s) == BuildLoop(EmptyBuild, BodyChildren(s))

(***************************************************************************)
(* cleanHtml: eight global, case-insensitive regular-expression            *)
(* replacements by the empty string.  Each XxxMatch(s, i) is the length of *)
(* the match of the expression at index i of s, 0 when it does not match   *)
(* there; no expression matches the empty string.                          *)
(***************************************************************************)
MatchCI(s, i, t) == i + Len(t) - 1 <= Len(s) /\ \A k \in 1..Len(t) : LowerChar(s[i + k - 1]) = t[k]

\* [a-zA-Z0-9\-]
IsNameChar(c) == IsLetter(c) \/ IsDigit(c) \/ c = "-"

RECURSIVE NameEnd(_, _)
NameEnd(s, i) == IF i <= Len(s) /\ IsNameChar(s[i]) THEN NameEnd(s, i + 1) ELSE i

\* the index of the first occurrence of the text t in s from index i on; 0 when absent
FindCI(s, i, t) == IF \E k \in i..Len(s) : MatchCI(s, k, t) THEN CHOOSE k \in i..Len(s) : MatchCI(s, k, t) /\ \A j \in i..(k - 1) : ~MatchCI(s, j, t) ELSE 0

\* prefix[a-zA-Z0-9\-]+="[^"]*"
AttrMatch(s, i, prefix) ==
  IF ~MatchCI(s, i, prefix) THEN 0
  ELSE LET e == NameEnd(s, i + Len(prefix))
           q == IF StartsAt(s, e, <<"=", "\"">>) THEN IndexOf(s, "\"", e + 2) ELSE 0
       IN IF e > i + Len(prefix) /\ q > 0 THEN q - i + 1 ELSE 0

\* /w:[a-zA-Z0-9\-]+="[^"]*"/gi
VendorAttrMatch(s, i) == AttrMatch(s, i, <<"w", ":">>)

\* /mso-[^:;"]+:[^;"]+;?/gi
MsoStyleMatch(s, i) ==
  IF ~MatchCI(s, i, <<"m","s","o","-">>) THEN 0
  ELSE LET e1 == RunEnd(s, i + 4, {":", ";", "\""})
           e2 == RunEnd(s, e1 + 1, {";", "\""})
       IN IF e1 > i + 4 /\ e1 <= Len(s) /\ s[e1] = ":" /\ e2 > e1 + 1
          THEN (e2 - i) + (IF e2 <= Len(s) /\ s[e2] = ";" THEN 1 ELSE 0)
          ELSE 0

\* /@[a-zA-Z0-9\-]+="[^"]*"/gi
AtAttrMatch(s, i) == AttrMatch(s, i, <<"@">>)

\* /_[a-zA-Z0-9\-]+="[^"]*"/gi
UnderscoreAttrMatch(s, i) == AttrMatch(s, i, <<"_">>)

\* /<!--[\s\S]*?-->/gi
CommentMatch(s, i) ==
  IF ~MatchCI(s, i, <<"<","!","-","-">>) THEN 0
  ELSE LET e == FindCI(s, i + 4, <<"-","-",">">>)
       IN IF e > 0 THEN e + 3 - i ELSE 0

\* /width="[^"]*"/gi
WidthMatch(s, i) ==
  IF ~MatchCI(s, i, <<"w","i","d","t","h","=","\"">>) THEN 0
  ELSE LET q == IndexOf(s, "\"", i + 7)
       IN IF q > 0 THEN q - i + 1 ELSE 0

\* /style="[^"]*?@[^"]*?"/gi and /style="[^"]*?mso-[^"]*?"/gi: a style attribute
\* whose value, up to its closing quote, holds the text t
StyleHoldingMatch(s, i, t) ==
  IF ~MatchCI(s, i, <<"s","t","y","l","e","=","\"">>) THEN 0
  ELSE LET q == IndexOf(s, "\"", i + 7)
           at == FindCI(s, i + 7, t)
       IN IF q > 0 /\ at > 0 /\ at + Len(t) <= q THEN q - i + 1 ELSE 0

MatchLen(re, s, i) ==
  CASE re = "w:" -> VendorAttrMatch(s, i)
    [] re = "mso-" -> MsoStyleMatch(s, i)
    [] re = "@" -> AtAttrMatch(s, i)
    [] re = "_" -> UnderscoreAttrMatch(s, i)
    [] re = "<!--" -> CommentMatch(s, i)
    [] re = "width" -> WidthMatch(s, i)
    [] re = "style@" -> StyleHoldingMatch(s, i, <<"@">>)
    [] re = "stylemso" -> StyleHoldingMatch(s, i, <<"m","s","o","-">>)

\* s.replace(re, ""), re global: one left-to-right pass, the scan resumes
\* after each match and never looks again at text it has passed
RECURSIVE ReplaceAll(_, _, _)
ReplaceAll(re, s, i) ==
  IF i > Len(s) THEN <<>>
  ELSE IF MatchLen(re, s, i) > 0 THEN ReplaceAll(re, s, i + MatchLen(re, s, i))
  ELSE <<s[i]>> \o ReplaceAll(re, s, i + 1)

CleanHtml(s) ==
  LET h1 == ReplaceAll("w:", s, 1)
      h2 == ReplaceAll("mso-", h1, 1)
      h3 == ReplaceAll("@", h2, 1)
      h4 == ReplaceAll("_", h3, 1)
      h5 == ReplaceAll("<!--", h4, 1)
      h6 == ReplaceAll("width", h5, 1)
      h7 == ReplaceAll("style@", h6, 1)
  IN ReplaceAll("stylemso", h7, 1)

(***************************************************************************)
(* sanitizeTable.  el.attributes is a sequence of [name, value].           *)
(***************************************************************************)
TableTags == {<<"t","a","b","l","e">>, <<"t","r">>, <<"t","d">>, <<"t","h">>, <<"t","h","e","a","d">>, <<"t","b","o","d","y">>, <<"t","f","o","o","t">>}

\* the call is given something that names no attribute: nothing is removed
RemoveAttributeNone(attrs, name) == attrs

\* el.removeAttribute(name): the first attribute of that name goes
RemoveAttribute(attrs, name) == IF \E k \in DOMAIN attrs : attrs[k].name = name THEN LET k == CHOOSE k \in DOMAIN attrs : attrs[k].name = name /\ \A j \in 1..(k - 1) : attrs[j].name # name IN SubSeq(attrs, 1, k - 1) \o SubSeq(attrs, k + 1, Len(attrs)) ELSE attrs

\* while (el.attributes.length > 0) el.removeAttribute(el.attributes[0].name)
RECURSIVE RemoveAllAttributes(_)
RemoveAllAttributes(attrs) == IF Len(attrs) > 0 THEN RemoveAllAttributes(RemoveAttribute(attrs, attrs[1].name)) ELSE attrs

\* elements.forEach over querySelectorAll("table, tr, td, th, thead, tbody, tfoot")
RECURSIVE StripTableElements(_)
StripTableElements(kids) == [k \in DOMAIN kids |-> IF kids[k].type = "el" THEN [kids[k] EXCEPT !.attrs = IF kids[k].tag \in TableTags THEN RemoveAllAttributes(@) ELSE @, !.kids = StripTableElements(@)] ELSE kids[k]]

SanitizeTable(s) == InnerHTML(StripTableElements(ParseBody(s)))

(***************************************************************************)
(* /api/export: buildHtml over the Section forest of the request body.     *)
(***************************************************************************)
\* `${n}` of a non-negative integer
RECURSIVE NumToString(_)
NumToString(n) == IF n < 10 THEN <<DigitChars[n + 1]>> ELSE NumToString(n \div 10) \o <<DigitChars[(n % 10) + 1]>>

\* `<h${level}>${title}</h${level}>`
HeadingTemplate(level, title) == <<"<", "h">> \o NumToString(level) \o <<">">> \o title \o <<"<", "/", "h">> \o NumToString(level) \o <<">">>

\* the heading is emitted at the depth of the Section in the forest
RECURSIVE BuildHtmlByDepth(_, _, _, _)
BuildHtmlByDepth(ns, list, level, acc) ==
  IF list = <<>> THEN acc
  ELSE LET n == ns[Head(list)]
           a1 == acc \o HeadingTemplate(level, n.title)
           a2 == IF n.contentHtml # <<>> THEN a1 \o SanitizeTable(CleanHtml(n.contentHtml)) ELSE a1
           a3 == IF n.children # <<>> THEN BuildHtmlByDepth(ns, n.children, level + 1, a2) ELSE a2
       IN BuildHtmlByDepth(ns, Tail(list), level, a3)

\* buildHtml(list, level): acc is finalHtml
RECURSIVE BuildHtml(_, _, _, _)
BuildHtml(ns, list, level, acc) ==
  IF list = <<>> THEN acc
  ELSE LET n == ns[Head(list)]
           a1 == acc \o HeadingTemplate(n.level, n.title)
           a2 == IF n.contentHtml # <<>> THEN a1 \o SanitizeTable(CleanHtml(n.contentHtml)) ELSE a1
           a3 == IF n.children # <<>> THEN BuildHtml(ns, n.children, level + 1, a2) ELSE a2
       IN BuildHtml(ns, Tail(list), level, a3)

\* res.json({ tree }): the forest as nested objects (ids left out)
RECURSIVE ToJson(_, _)
ToJson(ns, ids) == [k \in DOMAIN ids |-> [title |-> ns[ids[k]].title, level |-> ns[ids[k]].level, contentHtml |-> ns[ids[k]].contentHtml, children |-> ToJson(ns, ns[ids[k]].children)]]

(***************************************************************************)
(* The parts of the state a specification does not use.                    *)
(***************************************************************************)
EmptyDirectory == [t \in 1..MaxClock |-> [exists |-> FALSE, data |-> <<>>]]

BuilderIdle == html = <<>> /\ bodyChildren = <<>> /\ pos = 1 /\ nodes = <<>> /\ tree = <<>> /\ stack = <<>> /\ branch = "none" /\ pc = "idle"

ExportIdle == finalHtml = <<>> /\ rebuilt = EmptyBuild

CleanIdle == cleanArg = <<>> /\ cleanResult = <<>> /\ cleanPc = "idle"

TableIdle == parsed = <<>> /\ elements = <<>> /\ selected = <<>> /\ elIndex = 1 /\ tablePc = "idle"

UploadIdle == clock = 1 /\ files = EmptyDirectory /\ requests = <<>>

(***************************************************************************)
(* The documents given to the tree builder: up to MaxElems top-level       *)
(* elements, each a heading of level 1..6 or a paragraph, whose text is    *)
(* the element's position.                                                 *)
(***************************************************************************)
HeadingHtml(level, text) == <<"<", "h", DigitChars[level + 1], ">">> \o text \o <<"<", "/", "h", DigitChars[level + 1], ">">>

ParagraphHtml(text) == <<"<", "p", ">">> \o text \o <<"<", "/", "p", ">">>

WidthParagraphHtml(text) == <<"<","p"," ","w","i","d","t","h","=","\"","1","\"",">">> \o text \o <<"<", "/", "p", ">">>

ElemHtml(kind, k) == IF kind = 0 THEN ParagraphHtml(<<DigitChars[k + 1]>>) ELSE HeadingHtml(kind, <<DigitChars[k + 1]>>)

DocHtml(kinds) == Flatten([k \in DOMAIN kinds |-> ElemHtml(kinds[k], k)])

\* buildTreeFromHtml(html) up to the for loop
Enter(s) ==
  /\ html = s
  /\ bodyChildren = BodyChildren(s)
  /\ pos = 1
  /\ nodes = <<>>
  /\ tree = <<>>
  /\ stack = <<>>
  /\ branch = "none"
  /\ pc = "loop"

Init ==
  /\ \E n \in 0..MaxElems : \E kinds \in [1..n -> 0..6] : Enter(DocHtml(kinds))
  /\ ExportIdle
  /\ CleanIdle
  /\ TableIdle
  /\ UploadIdle

\* one iteration of the for loop of buildTreeFromHtml
Iterate ==
  /\ pc = "loop"
  /\ pos <= Len(bodyChildren)
  /\ LET r == ProcessNode([nodes |-> nodes, tree |-> tree, stack |-> stack, branch |-> branch], bodyChildren[pos])
     IN /\ nodes' = r.nodes
        /\ tree' = r.tree
        /\ stack' = r.stack
        /\ branch' = r.branch
  /\ pos' = pos + 1
  /\ UNCHANGED <<html, bodyChildren, pc, exportVars, cleanVars, tableVars, uploadVars>>

\* return tree
Return ==
  /\ pc = "loop"
  /\ pos > Len(bodyChildren)
  /\ pc' = "returned"
  /\ UNCHANGED <<html, bodyChildren, pos, nodes, tree, stack, branch, exportVars, cleanVars, tableVars, uploadVars>>

Next == Iterate \/ Return

Spec == Init /\ [][Next]_vars

(***************************************************************************)
(* /api/export and the round trip: the returned tree is serialized by      *)
(* buildHtml, and a tree is built again from that markup.                  *)
(***************************************************************************)
\* app.post("/api/export"): finalHtml = ""; buildHtml(nodes)
Export ==
  /\ pc = "returned"
  /\ finalHtml' = BuildHtml(nodes, tree, 1, <<>>)
  /\ pc' = "exported"
  /\ UNCHANGED <<html, bodyChildren, pos, nodes, tree, stack, branch, rebuilt, cleanVars, tableVars, uploadVars>>

\* buildTreeFromHtml(finalHtml)
Rebuild ==
  /\ pc = "exported"
  /\ rebuilt' = BuildTreeFromHtml(finalHtml)
  /\ pc' = "rebuilt"
  /\ UNCHANGED <<html, bodyChildren, pos, nodes, tree, stack, branch, finalHtml, cleanVars, tableVars, uploadVars>>

\* the documents of the round trip: headings of levels 1..MaxRoundTripLevel whose
\* text is a letter, a letter between spaces, empty, or the text "<h2>"; and
\* paragraphs, with and without a width attribute
RoundTripTitles == {<<"a">>, <<" ", "a", " ">>, <<>>, EntityLt \o <<"h", "2">> \o EntityGt}

RoundTripElems == {HeadingHtml(l, t) : l \in 1..MaxRoundTripLevel, t \in RoundTripTitles} \cup {ParagraphHtml(<<"a">>), WidthParagraphHtml(<<"a">>)}

InitRoundTrip ==
  /\ \E n \in 0..MaxRoundTripElems : \E els \in [1..n -> RoundTripElems] : Enter(Flatten(els))
  /\ ExportIdle
  /\ CleanIdle
  /\ TableIdle
  /\ UploadIdle

NextRoundTrip == Iterate \/ Return \/ Export \/ Rebuild

SpecRoundTrip == InitRoundTrip /\ [][NextRoundTrip]_vars

\* the forests sent to /api/export: up to MaxSections Sections in any nesting,
\* each with any of the levels of SectionLevels, with or without content
SectionLevels == {1, 6}

ForestNodes(parent, level, withContent) == [k \in DOMAIN parent |-> [title |-> <<DigitChars[k + 1]>>, level |-> level[k], contentHtml |-> IF withContent[k] THEN WidthParagraphHtml(<<DigitChars[k + 1]>>) ELSE <<>>, children |-> SelectSeq([j \in DOMAIN parent |-> j], LAMBDA j : parent[j] = k)]]

InitExport ==
  /\ \E n \in 0..MaxSections : \E parent \in [1..n -> 0..n], level \in [1..n -> SectionLevels], withContent \in [1..n -> BOOLEAN] :
        /\ \A k \in 1..n : parent[k] < k
        /\ nodes = ForestNodes(parent, level, withContent)
        /\ tree = SelectSeq([j \in 1..n |-> j], LAMBDA j : parent[j] = 0)
  /\ html = <<>>
  /\ bodyChildren = <<>>
  /\ pos = 1
  /\ stack = <<>>
  /\ branch = "none"
  /\ pc = "returned"
  /\ ExportIdle
  /\ CleanIdle
  /\ TableIdle
  /\ UploadIdle

NextExport == Export

SpecExport == InitExport /\ [][NextExport]_vars

(***************************************************************************)
(* cleanHtml called on a string: up to MaxPieces pieces of text.           *)
(***************************************************************************)
CleanPieces == {<<"@","a">>, <<"=","\"","v","\"">>, <<"w",":","a">>, <<"<","!","-">>, <<"<","!","-","-">>, <<"-","-",">">>, <<"-","-","-",">">>}

InitClean ==
  /\ \E n \in 0..MaxPieces : \E ps \in [1..n -> CleanPieces] : cleanArg = Flatten(ps)
  /\ cleanResult = <<>>
  /\ cleanPc = "called"
  /\ BuilderIdle
  /\ ExportIdle
  /\ TableIdle
  /\ UploadIdle

CleanCall ==
  /\ cleanPc = "called"
  /\ cleanResult' = CleanHtml(cleanArg)
  /\ cleanPc' = "returned"
  /\ UNCHANGED <<cleanArg, builderVars, exportVars, tableVars, uploadVars>>

NextClean == CleanCall

SpecClean == InitClean /\ [][NextClean]_vars

(***************************************************************************)
(* sanitizeTable, step by step, from the parsed document: up to            *)
(* MaxDomElements elements, each with up to MaxAttrs attributes of         *)
(* distinct names (the parser keeps the first of a repeated name).         *)
(***************************************************************************)
DomTags == {<<"t","d">>, <<"t","a","b","l","e">>, <<"p">>}

AttrNames == {<<"i","d">>, <<"w","i","d","t","h">>}

AttrLists == {a \in UNION {[1..n -> [name : AttrNames, value : {<<"1">>}]] : n \in 0..MaxAttrs} : \A j, k \in DOMAIN a : j # k => a[j].name # a[k].name}

InitTable ==
  /\ \E n \in 0..MaxDomElements : \E els \in [1..n -> [tag : DomTags, attrs : AttrLists]] :
        /\ parsed = els
        /\ elements = els
        /\ selected = SelectSeq([j \in 1..n |-> j], LAMBDA j : els[j].tag \in TableTags)
  /\ elIndex = 1
  /\ tablePc = "forEach"
  /\ BuilderIdle
  /\ ExportIdle
  /\ CleanIdle
  /\ UploadIdle

\* el.removeAttribute(el.attributes[0].name), while el.attributes.length > 0
RemoveFirst ==
  /\ tablePc = "forEach"
  /\ elIndex <= Len(selected)
  /\ Len(elements[selected[elIndex]].attrs) > 0
  /\ elements' = [elements EXCEPT ![selected[elIndex]].attrs = RemoveAttribute(@, @[1].name)]
  /\ UNCHANGED <<parsed, selected, elIndex, tablePc, builderVars, exportVars, cleanVars, uploadVars>>

\* the while loop ends: forEach goes to the next element
NextElement ==
  /\ tablePc = "forEach"
  /\ elIndex <= Len(selected)
  /\ Len(elements[selected[elIndex]].attrs) = 0
  /\ elIndex' = elIndex + 1
  /\ UNCHANGED <<parsed, elements, selected, tablePc, builderVars, exportVars, cleanVars, uploadVars>>

\* return doc.body.innerHTML
ReturnTable ==
  /\ tablePc = "forEach"
  /\ elIndex > Len(selected)
  /\ tablePc' = "returned"
  /\ UNCHANGED <<parsed, elements, selected, elIndex, builderVars, exportVars, cleanVars, uploadVars>>

NextTable == RemoveFirst \/ NextElement \/ ReturnTable

\* the loop runs on one thread that nothing suspends: it takes its next step
SpecTable == InitTable /\ [][NextTable]_vars /\ WF_vars(NextTable)

(***************************************************************************)
(* app.post("/api/upload-base64") for NumRequests concurrent requests.     *)
(* A handler runs without interruption up to its await; mammoth reads the  *)
(* file at some later turn of the event loop; the rest of the handler runs *)
(* at a later turn still.  The uploaded document stands for its bytes: it  *)
(* is the markup mammoth converts them to.                                 *)
(***************************************************************************)
UploadedDocuments == {HeadingHtml(1, <<"a">>), ParagraphHtml(<<"b">>)}

NoResponse == [status |-> 0, tree |-> <<>>]

InitUpload ==
  /\ clock = 1
  /\ files = EmptyDirectory
  /\ \E docs \in [1..NumRequests -> UploadedDocuments \cup {<<>>}] :
        requests = [r \in 1..NumRequests |-> [pc |-> "new", base64 |-> docs[r], tempPath |-> 0, value |-> <<>>, response |-> NoResponse]]
  /\ BuilderIdle
  /\ ExportIdle
  /\ CleanIdle
  /\ TableIdle

\* Date.now() advances
Tick ==
  /\ clock < MaxClock
  /\ clock' = clock + 1
  /\ UNCHANGED <<files, requests, builderVars, exportVars, cleanVars, tableVars>>

\* the handler up to await mammoth.convertToHtml: 400 without base64, else
\* tempPath = "base64-" + Date.now() + ".docx" and fs.writeFileSync
Receive(r) ==
  /\ requests[r].pc = "new"
  /\ IF requests[r].base64 = <<>>
     THEN /\ requests' = [requests EXCEPT ![r].pc = "done", ![r].response = [status |-> 400, tree |-> <<>>]]
          /\ UNCHANGED files
     ELSE /\ files' = [files EXCEPT ![clock] = [exists |-> TRUE, data |-> requests[r].base64]]
          /\ requests' = [requests EXCEPT ![r].pc = "converting", ![r].tempPath = clock]
  /\ UNCHANGED <<clock, builderVars, exportVars, cleanVars, tableVars>>

\* mammoth.convertToHtml({ path: tempPath }) reads the file; a missing file
\* rejects, and the catch answers 500
Convert(r) ==
  /\ requests[r].pc = "converting"
  /\ IF files[requests[r].tempPath].exists
     THEN requests' = [requests EXCEPT ![r].pc = "converted", ![r].value = files[requests[r].tempPath].data]
     ELSE requests' = [requests EXCEPT ![r].pc = "done", ![r].response = [status |-> 500, tree |-> <<>>]]
  /\ UNCHANGED <<clock, files, builderVars, exportVars, cleanVars, tableVars>>

\* after the await: fs.unlinkSync(tempPath) (it throws when the file is gone,
\* and the catch answers 500), then buildTreeFromHtml(body.innerHTML), res.json
Respond(r) ==
  /\ requests[r].pc = "converted"
  /\ IF files[requests[r].tempPath].exists
     THEN /\ files' = [files EXCEPT ![requests[r].tempPath] = [exists |-> FALSE, data |-> <<>>]]
          /\ LET built == BuildTreeFromHtml(InnerHTML(ParseBody(requests[r].value)))
             IN requests' = [requests EXCEPT ![r].pc = "done", ![r].response = [status |-> 200, tree |-> ToJson(built.nodes, built.tree)]]
     ELSE /\ requests' = [requests EXCEPT ![r].pc = "done", ![r].response = [status |-> 500, tree |-> <<>>]]
          /\ UNCHANGED files
  /\ UNCHANGED <<clock, builderVars, exportVars, cleanVars, tableVars>>

NextUpload == Tick \/ \E r \in 1..NumRequests : Receive(r) \/ Convert(r) \/ Respond(r)

SpecUpload == InitUpload /\ [][NextUpload]_vars

(***************************************************************************)
(* Properties of the tree builder.                                         *)
(***************************************************************************)
IsHeadingElement(n) == HeadingMatch(TagName(n)) # 0

\* the Section whose children hold id; 0 for a top-level Section
ParentOf(id) == IF \E p \in DOMAIN nodes : id \in Range(nodes[p].children) THEN CHOOSE p \in DOMAIN nodes : id \in Range(nodes[p].children) ELSE 0

RECURSIVE AncestorsOf(_)
AncestorsOf(id) == IF ParentOf(id) = 0 THEN {} ELSE {ParentOf(id)} \cup AncestorsOf(ParentOf(id))

RECURSIVE PathTo(_)
PathTo(id) == IF ParentOf(id) = 0 THEN <<id>> ELSE Append(PathTo(ParentOf(id)), id)

RECURSIVE Preorder(_, _)
Preorder(ns, ids) == Flatten([k \in DOMAIN ids |-> <<ids[k]>> \o Preorder(ns, ns[ids[k]].children)])

MaxOf(S) == CHOOSE m \in S : \A x \in S : x <= m

\* the elements processed so far, and the headings and fragments among them
Processed == 1..(pos - 1)

HeadingPositions == {k \in DOMAIN bodyChildren : IsHeadingElement(bodyChildren[k])}

HeadingsIn(S) == S \cap HeadingPositions

FragmentsIn(S) == S \ HeadingPositions

StartsWithFragment == bodyChildren # <<>> /\ ~IsHeadingElement(bodyChildren[1])

\* the outer markup of the fragments at the positions of S, in document order
RECURSIVE FragmentText(_, _)
FragmentText(k, S) == IF k > Len(bodyChildren) THEN <<>> ELSE (IF k \in S THEN OuterHTML(bodyChildren[k]) ELSE <<>>) \o FragmentText(k + 1, S)

\* the Section a fragment at position k belongs to: that of the nearest preceding
\* heading, or the synthesized root
OwnerOf(k, H) == Cardinality(H \cap 1..k) + (IF 1 \in DOMAIN bodyChildren \ H THEN 1 ELSE 0)

\* C1: after any prefix of the elements, every Section has a level strictly
\* greater than that of its parent and of every ancestor up to its root.
LevelsIncreaseDownwards == \A id \in DOMAIN nodes : /\ (ParentOf(id) # 0 => nodes[ParentOf(id)].level < nodes[id].level)
                                                   /\ \A a \in AncestorsOf(id) : nodes[a].level < nodes[id].level

LevelsIncreaseWitness == /\ pc = "returned"
                         /\ nodes # <<>> /\ nodes[1].title = IntroTitle
                         /\ Len(tree) >= 2
                         /\ \E id \in DOMAIN nodes : Cardinality(AncestorsOf(id)) >= 2

\* C2: the Section of a heading is a child of the Section created just before
\* it iff its level is greater; otherwise its parent is the most recently
\* created Section still open with a smaller level (the nearest earlier Section
\* of smaller level that no later Section of at most that level has closed), or
\* it is a top-level Section when there is none.  One Section per heading: no
\* placeholder for a skipped level.
HeadingClosure ==
  /\ \A j \in DOMAIN nodes :
       LET smaller == {i \in 1..(j - 1) : nodes[i].level < nodes[j].level}
       IN /\ ParentOf(j) = (IF smaller = {} THEN 0 ELSE MaxOf(smaller))
          /\ (ParentOf(j) = 0 <=> j \in Range(tree))
          /\ (j > 1 => (ParentOf(j) = j - 1 <=> nodes[j].level > nodes[j - 1].level))
          /\ (j > 1 /\ nodes[j].level = nodes[j - 1].level => ParentOf(j) = ParentOf(j - 1))
  /\ LET H == HeadingPositions
     IN /\ Len(nodes) = Cardinality(H \cap Processed) + (IF 1 \in Processed \ H THEN 1 ELSE 0)
        /\ \A k \in H \cap Processed : nodes[OwnerOf(k, H)].level = HeadingMatch(TagName(bodyChildren[k]))

HeadingClosureWitness == /\ pc = "returned"
                         /\ Len(bodyChildren) = MaxElems
                         /\ FragmentsIn(DOMAIN bodyChildren) = {}
                         /\ \E j \in DOMAIN nodes : j > 1 /\ nodes[j].level = nodes[j - 1].level
                         /\ \E j \in DOMAIN nodes : ParentOf(j) # 0 /\ nodes[j].level > nodes[ParentOf(j)].level + 1
                         /\ \E j \in DOMAIN nodes : ParentOf(j) # 0 /\ ParentOf(j) # j - 1

\* C3: every fragment is attributed to exactly one Section, that of the nearest
\* preceding heading (or the synthesized root), and the contentHtml of the
\* Sections in depth-first pre-order is the fragments in document order.
ContentAttribution ==
  /\ LET H == HeadingPositions
         owner == [k \in Processed \ H |-> OwnerOf(k, H)]
     IN /\ \A k \in DOMAIN owner : owner[k] \in DOMAIN nodes
        /\ \A j \in DOMAIN nodes : nodes[j].contentHtml = FragmentText(1, {k \in DOMAIN owner : owner[k] = j})
  /\ LET pre == Preorder(nodes, tree)
     IN /\ Flatten([k \in DOMAIN pre |-> nodes[pre[k]].contentHtml]) = FragmentText(1, FragmentsIn(Processed))
        /\ Len(pre) = Len(nodes)
        /\ Range(pre) = DOMAIN nodes
  /\ (pc = "returned" => html = InnerHTML(bodyChildren))

ContentAttributionWitness == /\ pc = "returned"
                             /\ StartsWithFragment
                             /\ Cardinality(FragmentsIn(DOMAIN bodyChildren)) >= 2
                             /\ \E j \in DOMAIN nodes : ParentOf(j) # 0 /\ nodes[j].contentHtml # <<>>

\* C4: leading fragments create exactly one synthesized root, 'Intro' at level
\* 1, holding all of them in order; there is never a second one, and none when
\* the first element is a heading; a document of fragments only yields that
\* one root, without children.
LeadingFragments == LET H == HeadingPositions IN IF H = {} THEN DOMAIN bodyChildren ELSE 1..((CHOOSE k \in H : \A h \in H : k <= h) - 1)

IntroOnce ==
  /\ (StartsWithFragment /\ pos > 1) =>
       /\ Len(nodes) = Cardinality(HeadingsIn(Processed)) + 1
       /\ tree[1] = 1
       /\ nodes[1].title = IntroTitle
       /\ nodes[1].level = 1
       /\ nodes[1].contentHtml = FragmentText(1, LeadingFragments \cap Processed)
       /\ \A j \in DOMAIN nodes : j > 1 => nodes[j].title # IntroTitle
  /\ ~StartsWithFragment =>
       /\ Len(nodes) = Cardinality(HeadingsIn(Processed))
       /\ \A j \in DOMAIN nodes : nodes[j].title # IntroTitle
  /\ (pc = "returned" /\ StartsWithFragment /\ HeadingsIn(DOMAIN bodyChildren) = {}) =>
       /\ tree = <<1>>
       /\ Len(nodes) = 1
       /\ nodes[1].children = <<>>

IntroOnceWitness == /\ pc = "returned"
                    /\ Cardinality(LeadingFragments) >= 2
                    /\ HeadingsIn(DOMAIN bodyChildren) # {}
                    /\ FragmentsIn(DOMAIN bodyChildren) # LeadingFragments

\* C10: after each element the stack is empty iff the tree is; a non-empty
\* stack is the path from a top-level Section to the Section created last,
\* with strictly increasing levels; the branch that appends to tree[0] is
\* never taken.
StackIsOpenPath ==
  /\ (stack = <<>> <=> tree = <<>>)
  /\ stack # <<>> =>
       /\ stack = PathTo(Len(nodes))
       /\ stack[1] \in Range(tree)
       /\ \A k \in 1..(Len(stack) - 1) : nodes[stack[k]].level < nodes[stack[k + 1]].level
  /\ branch # "first"

StackIsOpenPathWitness == /\ pc = "returned"
                          /\ Len(stack) >= 2
                          /\ Len(tree) >= 2
                          /\ Len(stack) < Len(nodes)
                          /\ branch = "top"

(***************************************************************************)
(* Properties of the export and of the round trip.                         *)
(***************************************************************************)
\* C5: building a tree again from the serialization of a built tree yields
\* an isomorphic tree: the same Sections with the same titles, levels,
\* contentHtml and nesting, in the same order.
RoundTripStable == pc = "rebuilt" => ToJson(rebuilt.nodes, rebuilt.tree) = ToJson(nodes, tree)

\* what the export emits for a Section's content: nothing for an empty
\* contentHtml, else the content through cleanHtml and then sanitizeTable
EmittedContent(c) == IF c = <<>> THEN <<>> ELSE SanitizeTable(CleanHtml(c))

\* C6: for every forest, also one whose levels disagree with the nesting, the
\* output is the depth-first pre-order sequence of the Sections: for each a
\* heading of the Section's own level field around its title, then its
\* (sanitized) content, its children coming before its next sibling.
ExportIsPreorder ==
  pc = "exported" =>
    LET pre == Preorder(nodes, tree)
        out == BodyChildren(finalHtml)
        headings == SelectSeq(out, IsHeadingElement)
    IN /\ finalHtml = Flatten([k \in DOMAIN pre |-> HeadingHtml(nodes[pre[k]].level, nodes[pre[k]].title) \o EmittedContent(nodes[pre[k]].contentHtml)])
       /\ Len(headings) = Len(pre)
       /\ \A k \in DOMAIN pre : /\ HeadingMatch(TagName(headings[k])) = nodes[pre[k]].level
                                /\ TextContent(headings[k]) = nodes[pre[k]].title

ExportIsPreorderWitness ==
  /\ pc = "exported"
  /\ Len(nodes) = 3
  /\ Preorder(nodes, tree) # <<1, 2, 3>>
  /\ \E id \in DOMAIN nodes : ParentOf(id) # 0 /\ nodes[id].level < nodes[ParentOf(id)].level
  /\ \E id \in DOMAIN nodes : nodes[id].level # Len(PathTo(id))
  /\ \E id \in DOMAIN nodes : nodes[id].contentHtml # <<>> /\ nodes[id].children # <<>>
  /\ \E id \in DOMAIN nodes : nodes[id].contentHtml = <<>>

(***************************************************************************)
(* Properties of the sanitizers.                                           *)
(***************************************************************************)
\* C7: the string cleanHtml returns contains no @-prefixed attribute, no w:
\* attribute and no comment span, also when removing one match joins the text
\* around it into a new match.
CleanResultIsClean ==
  cleanPc = "returned" =>
    \A i \in DOMAIN cleanResult : /\ AtAttrMatch(cleanResult, i) = 0
                                  /\ VendorAttrMatch(cleanResult, i) = 0
                                  /\ CommentMatch(cleanResult, i) = 0

\* C8: sanitizeTable terminates, and when it returns every table, tr, td, th,
\* thead, tbody and tfoot element has no attribute while every other element
\* has the attributes it was parsed with.
TableAttributesStripped ==
  /\ <>(tablePc = "returned")
  /\ [](tablePc = "returned" =>
          \A k \in DOMAIN elements : /\ elements[k].tag = parsed[k].tag
                                     /\ elements[k].attrs = (IF elements[k].tag \in TableTags THEN <<>> ELSE parsed[k].attrs))

TableAttributesStrippedWitness ==
  /\ tablePc = "returned"
  /\ \E k \in DOMAIN parsed : parsed[k].tag \in TableTags /\ Len(parsed[k].attrs) >= 2
  /\ \E k \in DOMAIN parsed : parsed[k].tag \notin TableTags /\ Len(parsed[k].attrs) >= 1

(***************************************************************************)
(* Properties of /api/upload-base64.                                       *)
(***************************************************************************)
\* the tree a request is due: that of its own document
OwnTree(r) == LET built == BuildTreeFromHtml(requests[r].base64) IN ToJson(built.nodes, built.tree)

\* C9: between its write and its own delete a request's temporary file holds
\* the bytes that request wrote (no other request overwrites or deletes it),
\* the conversion reads those bytes, and the response is the tree of the
\* request's own document.
UploadsAreIsolated ==
  \A r \in DOMAIN requests :
    /\ requests[r].pc \in {"converting", "converted"} =>
         /\ files[requests[r].tempPath].exists
         /\ files[requests[r].tempPath].data = requests[r].base64
    /\ requests[r].pc = "converted" => requests[r].value = requests[r].base64
    /\ (requests[r].pc = "done" /\ requests[r].base64 # <<>>) => requests[r].response = [status |-> 200, tree |-> OwnTree(r)]

====
